---- MODULE Spec2Model ----
(***************************************************************************)
(* Model of the stock/price synchronisation scripts seller.py (Ozon) and   *)
(* market.py (Yandex Market).                                              *)
(*                                                                         *)
(* Texts that the code inspects character by character (quantity           *)
(* indicators, price texts) are sequences of one-character strings.        *)
(* Offer ids and feed codes are only compared for equality and are plain   *)
(* strings; a feed record is [Kod, Kolichestvo, Tsena] for the spreadsheet *)
(* columns "Код", "Количество", "Цена".                                    *)
(***************************************************************************)
EXTENDS Integers, Sequences, FiniteSets, TLC

VARIABLES
    call,            \* SpecFn: the function under test and its arguments
    ret,             \* SpecFn: what the call returned (or that it raised)
    prog,            \* Spec: which entry point runs
    pc,              \* Spec: position of the run
    campaign,        \* Spec: market.main's current campaign ("FBS"/"DBS")
    catalog,         \* environment: the marketplace's offers, per campaign
    apiOk,           \* environment: the listing API answers correctly
    feedSrc,         \* environment: what the distributor's spreadsheet holds
    last_id,         \* get_offer_ids: cursor sent with the next page request
    product_list,    \* get_offer_ids: entries accumulated so far
    total,           \* seller.get_offer_ids: total of the latest page
    nreq,            \* number of page requests issued by the current enumeration
    watch_remnants,  \* main: the downloaded feed
    offer_ids,       \* main: the known-offer list
    stocks,          \* main: result of create_stocks
    prices,          \* main: result of create_prices
    todo,            \* main: chunks of the running upload loop not yet sent
    net,             \* log of network calls, in issue order
    pending,         \* coroutine objects created and never run
    printed,         \* lines printed by the except clauses
    exc,             \* the exception raised in the run, if any, and where
    outcome          \* "running", "returned" or "raised" (exception left the entry point)

vars == <<call, ret, prog, pc, campaign, catalog, apiOk, feedSrc, last_id,
          product_list, total, nreq, watch_remnants, offer_ids, stocks, prices,
          todo, net, pending, printed, exc, outcome>>

fnVars == <<call, ret>>
runVars == <<prog, pc, campaign, catalog, apiOk, feedSrc, last_id, product_list,
             total, nreq, watch_remnants, offer_ids, stocks, prices, todo, net,
             pending, printed, exc, outcome>>

----------------------------------------------------------------------------
(* Bounds of the model *)

MaxFeed == 2        \* feed records per feed (function harness)
MaxOffers == 2      \* entries of a known-offer list (function harness)
MaxLen == 4         \* length of a list given to divide
MaxN == 3           \* chunk size given to divide
MaxPriceLen == 3    \* characters of an enumerated price text
MaxCat == 4         \* offers of a marketplace catalogue
MaxReq == 4         \* page requests of one enumeration the model follows

\* Page and chunk sizes, scaled down so that catalogues of a few offers span
\* several pages and chunks.
OzonLimit == 2          \* "limit": 1000 of seller.get_product_list
YandexLimit == 2        \* "limit": 200 of market.get_product_list
OzonStocksChunk == 1    \* divide(stocks, 100)
OzonPricesChunk == 2    \* divide(prices, 900)
MarketStocksChunk == 2  \* divide(stocks, 2000)
MarketPricesChunk == 2  \* divide(prices, 500)
OzonUploadPricesChunk == 2   \* divide(prices, 1000) of seller.upload_prices

Ids == {"a", "b", "c"}        \* offer ids
FeedCodes == {"a", "b"}       \* codes of feed records

SeqsUpTo(S, k) == UNION {[1..m -> S] : m \in 0..k}

----------------------------------------------------------------------------
(* Texts *)

Digits == {"0", "1", "2", "3", "4", "5", "6", "7", "8", "9"}

DigitChars == <<"0", "1", "2", "3", "4", "5", "6", "7", "8", "9">>

DigitVal(c) == (CHOOSE i \in 1..10 : DigitChars[i] = c) - 1

RECURSIVE Decimal(_)
Decimal(ds) ==
    IF ds = <<>> THEN 0
    ELSE Decimal(SubSeq(ds, 1, Len(ds) - 1)) * 10 + DigitVal(ds[Len(ds)])

RECURSIVE Strip(_)
Strip(s) ==
    IF s = <<>> THEN s
    ELSE IF Head(s) = " " THEN Strip(Tail(s))
    ELSE IF s[Len(s)] = " " THEN Strip(SubSeq(s, 1, Len(s) - 1))
    ELSE s

\* Python's int(text): surrounding blanks and one sign are accepted, then at
\* least one decimal digit and nothing else; anything else raises ValueError.
PyInt(s) ==
    LET t == Strip(s)
        signed == t # <<>> /\ t[1] \in {"+", "-"}
        body == IF signed THEN Tail(t) ELSE t
    IN  IF body # <<>> /\ \A i \in 1..Len(body) : body[i] \in Digits
        THEN [ok |-> TRUE,
              val |-> IF signed /\ t[1] = "-" THEN 0 - Decimal(body) ELSE Decimal(body)]
        ELSE [ok |-> FALSE, val |-> 0]

\* faulty variant: the text is not cut at the "."
SplitHead_m(s) == s
\* price.split(".")[0]: the text before the first "."
SplitHead(s) ==
    IF \E i \in 1..Len(s) : s[i] = "."
    THEN SubSeq(s, 1, (CHOOSE i \in 1..Len(s) :
                          s[i] = "." /\ \A j \in 1..(i - 1) : s[j] # ".") - 1)
    ELSE s

\* the class [0-9] of the pattern
IsDigit(c) == c \in Digits

\* re.sub("[^0-9]", "", price.split(".")[0])
price_conversion(price) == SelectSeq(SplitHead(price), IsDigit)

----------------------------------------------------------------------------
(* Lists *)

In(x, ids) == \E i \in 1..Len(ids) : ids[i] = x

\* faulty variant: every occurrence is dropped
RemoveAll_m(ids, x) == SelectSeq(ids, LAMBDA y : y # x)
\* faulty variant: offer_ids.remove(...) is missing
RemoveNone_m(ids, x) == ids
\* list.remove(x): drops the first occurrence
Remove(ids, x) ==
    LET k == CHOOSE i \in 1..Len(ids) : ids[i] = x /\ \A j \in 1..(i - 1) : ids[j] # x
    IN  SubSeq(ids, 1, k - 1) \o SubSeq(ids, k + 1, Len(ids))

Min(a, b) == IF a < b THEN a ELSE b

\* range(0, len(lst), n): the start offsets 0, n, 2n, ... below len(lst)
RangeStarts(len, n) == {i \in 0..(len - 1) : i % n = 0}

\* faulty variant: lst[i : i + n - 1]
Slice_m(lst, i, n) == SubSeq(lst, i + 1, Min(i + n, Len(lst)) - 1)
\* lst[i : i + n]
Slice(lst, i, n) == SubSeq(lst, i + 1, Min(i + n, Len(lst)))

\* list(divide(lst, n)): the slices in the order the generator yields them
divide(lst, n) ==
    LET starts == RangeStarts(Len(lst), n)
    IN  [k \in 1..Cardinality(starts) |-> Slice(lst, (k - 1) * n, n)]

----------------------------------------------------------------------------
(* Reconciler *)

Gt10 == <<">", "1", "0">>
One == <<"1">>

\* faulty variant: an unreadable indicator counts as 0
StockOf_lenient(watch) ==
    IF watch.Kolichestvo = Gt10 THEN [ok |-> TRUE, val |-> 100]
    ELSE IF watch.Kolichestvo = One THEN [ok |-> TRUE, val |-> 0]
    ELSE [ok |-> TRUE, val |-> PyInt(watch.Kolichestvo).val]
\* faulty variant: the branch for "1" is missing
StockOf_m(watch) ==
    IF watch.Kolichestvo = Gt10 THEN [ok |-> TRUE, val |-> 100]
    ELSE PyInt(watch.Kolichestvo)
\* count = str(watch.get("Количество")) and the if/elif/else on it; ok is
\* FALSE when int() raises ValueError
StockOf(watch) ==
    IF watch.Kolichestvo = Gt10 THEN [ok |-> TRUE, val |-> 100]
    ELSE IF watch.Kolichestvo = One THEN [ok |-> TRUE, val |-> 0]
    ELSE PyInt(watch.Kolichestvo)

\* faulty variant: only the first remaining id is zero-filled
ZeroFill_m(ids) == IF ids = <<>> THEN <<>> ELSE <<[offer_id |-> ids[1], stock |-> 0]>>
\* for offer_id in offer_ids: stocks.append({"offer_id": offer_id, "stock": 0})
ZeroFill(ids) == [i \in 1..Len(ids) |-> [offer_id |-> ids[i], stock |-> 0]]

\* the first loop of seller.create_stocks; the result carries the list of
\* updates built so far and the known-offer list as the loop left it
RECURSIVE StocksLoop(_, _, _)
StocksLoop(ws, ids, acc) ==
    IF ws = <<>> THEN [ok |-> TRUE, stocks |-> acc, offer_ids |-> ids]
    ELSE LET watch == Head(ws)
             q == StockOf(watch)
         IN  IF In(watch.Kod, ids)
             THEN IF q.ok
                  THEN StocksLoop(Tail(ws), Remove(ids, watch.Kod),
                                  Append(acc, [offer_id |-> watch.Kod, stock |-> q.val]))
                  ELSE [ok |-> FALSE, stocks |-> acc, offer_ids |-> ids]
             ELSE StocksLoop(Tail(ws), ids, acc)

\* seller.create_stocks: ok = FALSE stands for the ValueError leaving the
\* function; offer_ids is the caller's list after the call
create_stocks(ws, ids) ==
    LET r == StocksLoop(ws, ids, <<>>)
    IN  IF r.ok THEN [r EXCEPT !.stocks = r.stocks \o ZeroFill(r.offer_ids)] ELSE r

MarketStock(sku, warehouse_id, count, date) ==
    [sku |-> sku, warehouseId |-> warehouse_id,
     items |-> <<[count |-> count, type |-> "FIT", updatedAt |-> date]>>]

MarketZeroFill(ids, warehouse_id, date) ==
    [i \in 1..Len(ids) |-> MarketStock(ids[i], warehouse_id, 0, date)]

RECURSIVE MarketStocksLoop(_, _, _, _, _)
MarketStocksLoop(ws, ids, warehouse_id, date, acc) ==
    IF ws = <<>> THEN [ok |-> TRUE, stocks |-> acc, offer_ids |-> ids]
    ELSE LET watch == Head(ws)
             q == StockOf(watch)
         IN  IF In(watch.Kod, ids)
             THEN IF q.ok
                  THEN MarketStocksLoop(Tail(ws), Remove(ids, watch.Kod), warehouse_id, date,
                                        Append(acc, MarketStock(watch.Kod, warehouse_id, q.val, date)))
                  ELSE [ok |-> FALSE, stocks |-> acc, offer_ids |-> ids]
             ELSE MarketStocksLoop(Tail(ws), ids, warehouse_id, date, acc)

\* market.create_stocks
market_create_stocks(ws, ids, warehouse_id, date) ==
    LET r == MarketStocksLoop(ws, ids, warehouse_id, date, <<>>)
    IN  IF r.ok
        THEN [r EXCEPT !.stocks = r.stocks \o MarketZeroFill(r.offer_ids, warehouse_id, date)]
        ELSE r

\* faulty variant: the membership test is missing
PriceMatch_m(watch, ids) == TRUE
\* if str(watch.get("Код")) in offer_ids
PriceMatch(watch, ids) == In(watch.Kod, ids)

\* seller.create_prices: one dict per matching feed record
create_prices(ws, ids) ==
    LET hit == SelectSeq(ws, LAMBDA watch : PriceMatch(watch, ids))
    IN  [ok |-> TRUE,
         prices |-> [i \in 1..Len(hit) |->
                        [auto_action_enabled |-> "UNKNOWN", currency_code |-> "RUB",
                         offer_id |-> hit[i].Kod, old_price |-> "0",
                         price |-> price_conversion(hit[i].Tsena)]]]

\* market.create_prices: int(price_conversion(...)) raises ValueError when the
\* text has no digit before its first "."; the records before it are lost
\* with the function's frame
market_create_prices(ws, ids) ==
    LET hit == SelectSeq(ws, LAMBDA watch : PriceMatch(watch, ids))
    IN  IF \A i \in 1..Len(hit) : PyInt(price_conversion(hit[i].Tsena)).ok
        THEN [ok |-> TRUE,
              prices |-> [i \in 1..Len(hit) |->
                            [id |-> hit[i].Kod,
                             price |-> [value |-> PyInt(price_conversion(hit[i].Tsena)).val,
                                        currencyId |-> "RUR"]]]]
        ELSE [ok |-> FALSE, prices |-> <<>>]

----------------------------------------------------------------------------
(* Inputs of the function harness *)

Indicators ==
    {Gt10, One, <<"0">>, <<"2">>, <<"1", "0">>, <<"x">>}

\* "5'990.00 руб." and "1200 руб."; the letters р, у, б are written r, u, b
PriceA == <<"5", "'", "9", "9", "0", ".", "0", "0", " ", "r", "u", "b", ".">>
PriceB == <<"1", "2", "0", "0", " ", "r", "u", "b", ".">>
PriceNone == <<"r", "u", "b", ".">>

PriceAlphabet == {"5", "0", "'", ".", " ", "r"}

StockFeeds ==
    SeqsUpTo([Kod : FeedCodes, Kolichestvo : Indicators, Tsena : {PriceB}], MaxFeed)

PriceFeeds ==
    SeqsUpTo([Kod : FeedCodes, Kolichestvo : {Gt10}, Tsena : {PriceA, PriceB, PriceNone}], MaxFeed)

OfferLists == SeqsUpTo(Ids, MaxOffers)

Warehouse == "wh"
Now == "2024-01-01T00:00:00Z"

NotCalled == [done |-> FALSE]

NoExc == [kind |-> "none", at |-> "none"]

RunIdle ==
    /\ prog = "none" /\ pc = "idle" /\ campaign = "none"
    /\ catalog = <<>> /\ apiOk = TRUE /\ feedSrc = <<>>
    /\ last_id = "" /\ product_list = <<>> /\ total = 0 /\ nreq = 0
    /\ watch_remnants = <<>> /\ offer_ids = <<>> /\ stocks = <<>> /\ prices = <<>>
    /\ todo = <<>> /\ net = <<>> /\ pending = <<>> /\ printed = <<>>
    /\ exc = NoExc /\ outcome = "idle"

InitFn ==
    /\ RunIdle
    /\ ret = NotCalled
    /\ \/ \E f \in {"seller.create_stocks", "market.create_stocks"},
             ws \in StockFeeds, ids \in OfferLists :
             call = [fn |-> f, watch_remnants |-> ws, offer_ids |-> ids]
       \/ \E f \in {"seller.create_prices", "market.create_prices"},
             ws \in PriceFeeds, ids \in OfferLists :
             call = [fn |-> f, watch_remnants |-> ws, offer_ids |-> ids]
       \/ \E l \in SeqsUpTo({"x", "y"}, MaxLen), n \in 1..MaxN :
             call = [fn |-> "divide", lst |-> l, n |-> n]
       \/ \E p \in SeqsUpTo(PriceAlphabet, MaxPriceLen) \cup {PriceA, PriceB} :
             call = [fn |-> "price_conversion", price |-> p]

CallSellerCreateStocks ==
    /\ call.fn = "seller.create_stocks" /\ ~ret.done
    /\ LET r == create_stocks(call.watch_remnants, call.offer_ids)
       IN  ret' = [done |-> TRUE, ok |-> r.ok, stocks |-> r.stocks,
                   offer_ids |-> r.offer_ids, watch_remnants |-> call.watch_remnants]
    /\ UNCHANGED <<call, runVars>>

CallMarketCreateStocks ==
    /\ call.fn = "market.create_stocks" /\ ~ret.done
    /\ LET r == market_create_stocks(call.watch_remnants, call.offer_ids, Warehouse, Now)
       IN  ret' = [done |-> TRUE, ok |-> r.ok, stocks |-> r.stocks,
                   offer_ids |-> r.offer_ids, watch_remnants |-> call.watch_remnants]
    /\ UNCHANGED <<call, runVars>>

CallSellerCreatePrices ==
    /\ call.fn = "seller.create_prices" /\ ~ret.done
    /\ LET r == create_prices(call.watch_remnants, call.offer_ids)
       IN  ret' = [done |-> TRUE, ok |-> r.ok, prices |-> r.prices,
                   offer_ids |-> call.offer_ids, watch_remnants |-> call.watch_remnants]
    /\ UNCHANGED <<call, runVars>>

CallMarketCreatePrices ==
    /\ call.fn = "market.create_prices" /\ ~ret.done
    /\ LET r == market_create_prices(call.watch_remnants, call.offer_ids)
       IN  ret' = [done |-> TRUE, ok |-> r.ok, prices |-> r.prices,
                   offer_ids |-> call.offer_ids, watch_remnants |-> call.watch_remnants]
    /\ UNCHANGED <<call, runVars>>

CallDivide ==
    /\ call.fn = "divide" /\ ~ret.done
    /\ ret' = [done |-> TRUE, chunks |-> divide(call.lst, call.n)]
    /\ UNCHANGED <<call, runVars>>

CallPriceConversion ==
    /\ call.fn = "price_conversion" /\ ~ret.done
    /\ ret' = [done |-> TRUE, conv |-> price_conversion(call.price)]
    /\ UNCHANGED <<call, runVars>>

NextFn ==
    \/ CallSellerCreateStocks
    \/ CallMarketCreateStocks
    \/ CallSellerCreatePrices
    \/ CallMarketCreatePrices
    \/ CallDivide
    \/ CallPriceConversion

SpecFn == InitFn /\ [][NextFn]_vars

----------------------------------------------------------------------------
(* The marketplaces' listing APIs (environment) *)

Campaigns == {"OZON", "FBS", "DBS"}

\* the opaque cursors the APIs hand out; Tok(k) continues after k offers
Tokens == <<"t1", "t2", "t3", "t4", "t5">>
Absent == "<absent>"      \* a key missing from the response (None)

Tok(k) == IF k = 0 THEN "" ELSE Tokens[k]
Offset(tok) == IF tok \in {"", Absent} THEN 0 ELSE CHOOSE k \in 1..Len(Tokens) : Tokens[k] = tok

\* the offers a page request with cursor tok returns
Page(cat, tok, limit) == SubSeq(cat, Offset(tok) + 1, Min(Offset(tok) + limit, Len(cat)))
PageEnd(cat, tok, limit) == Min(Offset(tok) + limit, Len(cat))

\* result of seller.get_product_list: items, total, last_id
OzonResponses(cat, tok) ==
    {[items |-> [i \in 1..Len(Page(cat, tok, OzonLimit)) |->
                    [offer_id |-> Page(cat, tok, OzonLimit)[i]]],
      total |-> t,
      last_id |-> Tok(PageEnd(cat, tok, OzonLimit))] :
        t \in IF apiOk THEN {Len(cat)} ELSE 0..(MaxCat + 1)}

\* result of market.get_product_list: offerMappingEntries and
\* paging.nextPageToken. A correct API names the next page while offers
\* remain; after the last offer it sends no token or an empty one, or, after
\* a full page, the token of a last, empty page.
YandexResponses(cat, tok) ==
    LET end == PageEnd(cat, tok, YandexLimit)
        items == Page(cat, tok, YandexLimit)
        next == IF ~apiOk THEN {Tok(k) : k \in 0..Len(cat)} \cup {Absent}
                ELSE IF end < Len(cat) THEN {Tok(end)}
                ELSE {"", Absent} \cup (IF Len(items) = YandexLimit THEN {Tok(end)} ELSE {})
    IN  {[offerMappingEntries |-> [i \in 1..Len(items) |-> [offer |-> [shopSku |-> items[i]]]],
          paging |-> [nextPageToken |-> t]] : t \in next}

----------------------------------------------------------------------------
(* The entry points *)

Mains == {"seller.main", "market.main"}
Enumerators == {"seller.get_offer_ids", "market.get_offer_ids"}
Uploaders == {"seller.upload_stocks", "seller.upload_prices"}
Progs == Mains \cup Enumerators \cup Uploaders

OnYandex == prog \in {"market.main", "market.get_offer_ids"}

\* exceptions of a network call: requests.exceptions.ReadTimeout,
\* requests.exceptions.ConnectionError, and raise_for_status()'s HTTPError
NetErrors == {"ReadTimeout", "ConnectionError", "HTTPError"}

\* what the except clauses of main print
Message(kind) ==
    CASE kind = "ReadTimeout" -> "timeout"
      [] kind = "ConnectionError" -> "connection error"
      [] OTHER -> "ERROR_2"

\* the statement at pc stands inside main's try block
InTry ==
    \/ prog = "seller.main"
    \/ prog = "market.main" /\ pc # "download"

\* faulty variant: the exception is printed inside the loop, which goes on
Raise_m(kind) ==
    /\ exc' = [kind |-> kind, at |-> pc]
    /\ pc' = pc
    /\ printed' = Append(printed, Message(kind))
    /\ outcome' = outcome
\* an exception of the given kind leaves the statement at pc: main's except
\* clauses print and main returns, elsewhere it leaves the entry point
Raise(kind) ==
    /\ exc' = [kind |-> kind, at |-> pc]
    /\ pc' = "done"
    /\ IF InTry
       THEN printed' = Append(printed, Message(kind)) /\ outcome' = "returned"
       ELSE printed' = printed /\ outcome' = "raised"

\* faulty variant: total <= len(product_list)
OzonLoopDone_le(tot, plist) == tot <= Len(plist)
\* faulty variant: total < len(product_list)
OzonLoopDone_m(tot, plist) == tot < Len(plist)
\* if total == len(product_list): break
OzonLoopDone(tot, plist) == tot = Len(plist)

\* if not page: break
YandexLoopDone(page) == page \in {"", Absent}

\* faulty variant: the last entry is lost
OzonOfferIds_m(plist) == [i \in 1..(Len(plist) - 1) |-> plist[i].offer_id]
\* for product in product_list: offer_ids.append(product.get("offer_id"))
OzonOfferIds(plist) == [i \in 1..Len(plist) |-> plist[i].offer_id]

\* for product in product_list: offer_ids.append(product.get("offer").get("shopSku"))
MarketOfferIds(plist) == [i \in 1..Len(plist) |-> plist[i].offer.shopSku]

\* the statement that follows get_offer_ids in the running entry point
AfterEnum ==
    CASE prog = "seller.main" -> "download"
      [] prog \in {"market.main", "seller.upload_stocks"} -> "create_stocks"
      [] prog = "seller.upload_prices" -> "create_prices"
      [] OTHER -> "done"

\* one pass of the while loop of seller.get_offer_ids whose request succeeds;
\* on break, the loop that collects the offer ids and the return
OzonPage ==
    /\ pc = "enum" /\ ~OnYandex /\ nreq < MaxReq
    /\ \E some_prod \in OzonResponses(catalog[campaign], last_id) :
          LET plist == product_list \o some_prod.items
          IN  /\ product_list' = plist
              /\ total' = some_prod.total
              /\ last_id' = some_prod.last_id
              /\ IF OzonLoopDone(some_prod.total, plist)
                 THEN /\ offer_ids' = OzonOfferIds(plist)
                      /\ pc' = AfterEnum
                      /\ outcome' = IF prog \in Enumerators THEN "returned" ELSE outcome
                 ELSE UNCHANGED <<offer_ids, pc, outcome>>
              /\ net' = Append(net, [op |-> "list", campaign |-> campaign,
                                     arg |-> last_id, ok |-> TRUE,
                                     items |-> some_prod.items,
                                     next |-> some_prod.last_id])
    /\ nreq' = nreq + 1
    /\ UNCHANGED <<fnVars, prog, campaign, catalog, apiOk, feedSrc, watch_remnants,
                   stocks, prices, todo, pending, printed, exc>>

\* the same for market.get_offer_ids
YandexPage ==
    /\ pc = "enum" /\ OnYandex /\ nreq < MaxReq
    /\ \E some_prod \in YandexResponses(catalog[campaign], last_id) :
          LET plist == product_list \o some_prod.offerMappingEntries
              page == some_prod.paging.nextPageToken
          IN  /\ product_list' = plist
              /\ last_id' = page
              /\ IF YandexLoopDone(page)
                 THEN /\ offer_ids' = MarketOfferIds(plist)
                      /\ pc' = AfterEnum
                      /\ outcome' = IF prog \in Enumerators THEN "returned" ELSE outcome
                 ELSE UNCHANGED <<offer_ids, pc, outcome>>
              /\ net' = Append(net, [op |-> "list", campaign |-> campaign,
                                     arg |-> last_id, ok |-> TRUE,
                                     items |-> some_prod.offerMappingEntries,
                                     next |-> page])
    /\ nreq' = nreq + 1
    /\ UNCHANGED <<fnVars, prog, campaign, catalog, apiOk, feedSrc, total, watch_remnants,
                   stocks, prices, todo, pending, printed, exc>>

\* a page request raises (requests.get/post or raise_for_status)
PageFail ==
    /\ pc = "enum" /\ nreq < MaxReq
    /\ \E kind \in NetErrors : Raise(kind)
    /\ nreq' = nreq + 1
    /\ net' = Append(net, [op |-> "list", campaign |-> campaign, arg |-> last_id, ok |-> FALSE])
    /\ UNCHANGED <<fnVars, prog, campaign, catalog, apiOk, feedSrc, last_id, product_list,
                   total, watch_remnants, offer_ids, stocks, prices, todo, pending>>

\* download_stock() returns the parsed spreadsheet
DownloadStock ==
    /\ pc = "download"
    /\ watch_remnants' = feedSrc
    /\ net' = Append(net, [op |-> "download", campaign |-> "none", arg |-> "", ok |-> TRUE])
    /\ pc' = IF prog = "seller.main" THEN "create_stocks" ELSE "enum"
    /\ UNCHANGED <<fnVars, prog, campaign, catalog, apiOk, feedSrc, last_id, product_list,
                   total, nreq, offer_ids, stocks, prices, todo, pending, printed, exc,
                   outcome>>

\* download_stock() raises
DownloadFail ==
    /\ pc = "download"
    /\ \E kind \in NetErrors : Raise(kind)
    /\ net' = Append(net, [op |-> "download", campaign |-> "none", arg |-> "", ok |-> FALSE])
    /\ UNCHANGED <<fnVars, prog, campaign, catalog, apiOk, feedSrc, last_id, product_list,
                   total, nreq, watch_remnants, offer_ids, stocks, prices, todo, pending>>

WarehouseOf(c) == IF c = "FBS" THEN "warehouse_fbs" ELSE "warehouse_dbs"

StocksChunk == IF OnYandex THEN MarketStocksChunk ELSE OzonStocksChunk

\* stocks = create_stocks(watch_remnants, offer_ids[, warehouse_id]) and the
\* list(divide(stocks, n)) the for statement iterates over
CreateStocks ==
    /\ pc = "create_stocks"
    /\ LET r == IF OnYandex
                THEN market_create_stocks(watch_remnants, offer_ids, WarehouseOf(campaign), Now)
                ELSE create_stocks(watch_remnants, offer_ids)
       IN  /\ offer_ids' = r.offer_ids
           /\ IF r.ok
              THEN /\ stocks' = r.stocks
                   /\ todo' = divide(r.stocks, StocksChunk)
                   /\ pc' = "update_stocks"
                   /\ UNCHANGED <<printed, exc, outcome>>
              ELSE /\ Raise("ValueError")
                   /\ UNCHANGED <<stocks, todo>>
    /\ UNCHANGED <<fnVars, prog, campaign, catalog, apiOk, feedSrc, last_id, product_list,
                   total, nreq, watch_remnants, prices, net, pending>>

\* update_stocks(some_stock, ...) returns
UpdateStocks ==
    /\ pc = "update_stocks" /\ todo # <<>>
    /\ net' = Append(net, [op |-> "update_stocks", campaign |-> campaign,
                           arg |-> Head(todo), ok |-> TRUE])
    /\ todo' = Tail(todo)
    /\ UNCHANGED <<fnVars, prog, pc, campaign, catalog, apiOk, feedSrc, last_id,
                   product_list, total, nreq, watch_remnants, offer_ids, stocks, prices,
                   pending, printed, exc, outcome>>

\* update_stocks(some_stock, ...) raises
UpdateStocksFail ==
    /\ pc = "update_stocks" /\ todo # <<>>
    /\ \E kind \in NetErrors : Raise(kind)
    /\ net' = Append(net, [op |-> "update_stocks", campaign |-> campaign,
                           arg |-> Head(todo), ok |-> FALSE])
    /\ UNCHANGED <<fnVars, prog, campaign, catalog, apiOk, feedSrc, last_id, product_list,
                   total, nreq, watch_remnants, offer_ids, stocks, prices, todo, pending>>

NotEmpty(st) == SelectSeq(st, LAMBDA stock : stock.stock # 0)

\* the stocks loop is exhausted: main goes on to the prices;
\* seller.upload_stocks filters not_empty and returns
StocksLoopEnd ==
    /\ pc = "update_stocks" /\ todo = <<>>
    /\ pc' = CASE prog = "seller.main" -> "create_prices"
               [] prog = "market.main" -> "upload_prices"
               [] OTHER -> "done"
    /\ IF prog = "seller.upload_stocks"
       THEN /\ outcome' = "returned"
            /\ ret' = [done |-> TRUE, not_empty |-> NotEmpty(stocks), stocks |-> stocks]
       ELSE UNCHANGED <<outcome, ret>>
    /\ UNCHANGED <<call, prog, campaign, catalog, apiOk, feedSrc, last_id, product_list,
                   total, nreq, watch_remnants, offer_ids, stocks, prices, todo, net,
                   pending, printed, exc>>

PricesChunk == IF prog = "seller.main" THEN OzonPricesChunk ELSE OzonUploadPricesChunk

\* seller.main and seller.upload_prices: prices = create_prices(watch_remnants,
\* offer_ids) and list(divide(prices, n))
CreatePrices ==
    /\ pc = "create_prices"
    /\ prices' = create_prices(watch_remnants, offer_ids).prices
    /\ todo' = divide(prices', PricesChunk)
    /\ pc' = "update_price"
    /\ UNCHANGED <<fnVars, prog, campaign, catalog, apiOk, feedSrc, last_id, product_list,
                   total, nreq, watch_remnants, offer_ids, stocks, net, pending, printed,
                   exc, outcome>>

\* update_price(some_price, ...) returns
UpdatePrice ==
    /\ pc = "update_price" /\ todo # <<>>
    /\ net' = Append(net, [op |-> "update_price", campaign |-> campaign,
                           arg |-> Head(todo), ok |-> TRUE])
    /\ todo' = Tail(todo)
    /\ UNCHANGED <<fnVars, prog, pc, campaign, catalog, apiOk, feedSrc, last_id,
                   product_list, total, nreq, watch_remnants, offer_ids, stocks, prices,
                   pending, printed, exc, outcome>>

\* update_price(some_price, ...) raises
UpdatePriceFail ==
    /\ pc = "update_price" /\ todo # <<>>
    /\ \E kind \in NetErrors : Raise(kind)
    /\ net' = Append(net, [op |-> "update_price", campaign |-> campaign,
                           arg |-> Head(todo), ok |-> FALSE])
    /\ UNCHANGED <<fnVars, prog, campaign, catalog, apiOk, feedSrc, last_id, product_list,
                   total, nreq, watch_remnants, offer_ids, stocks, prices, todo, pending>>

\* the prices loop is exhausted: seller.main returns, seller.upload_prices
\* returns prices
PricesLoopEnd ==
    /\ pc = "update_price" /\ todo = <<>>
    /\ pc' = "done"
    /\ outcome' = "returned"
    /\ ret' = IF prog = "seller.upload_prices" THEN [done |-> TRUE, prices |-> prices] ELSE ret
    /\ UNCHANGED <<call, prog, campaign, catalog, apiOk, feedSrc, last_id, product_list,
                   total, nreq, watch_remnants, offer_ids, stocks, prices, todo, net,
                   pending, printed, exc>>

\* market.main: upload_prices(watch_remnants, campaign_id, market_token) as an
\* expression statement. upload_prices is declared async def, so the call
\* builds a coroutine object and runs none of its body; the object is dropped.
\* After FBS the DBS block starts with get_offer_ids (page = "", product_list
\* = []); after DBS main returns.
UploadPricesCall ==
    /\ pc = "upload_prices"
    /\ pending' = Append(pending, [fn |-> "upload_prices", campaign |-> campaign])
    /\ IF campaign = "FBS"
       THEN /\ campaign' = "DBS"
            /\ pc' = "enum"
            /\ last_id' = ""
            /\ product_list' = <<>>
            /\ nreq' = 0
            /\ UNCHANGED outcome
       ELSE /\ pc' = "done"
            /\ outcome' = "returned"
            /\ UNCHANGED <<campaign, last_id, product_list, nreq>>
    /\ UNCHANGED <<fnVars, prog, catalog, apiOk, feedSrc, total, watch_remnants, offer_ids,
                   stocks, prices, todo, net, printed, exc>>

----------------------------------------------------------------------------
(* Specifications *)

Injective(seq) == \A i, j \in 1..Len(seq) : seq[i] = seq[j] => i = j

\* catalogues: the offer ids of a campaign are distinct
Catalogs(S) == {c \in SeqsUpTo(S, MaxCat) : Injective(c)}

MainFeeds ==
    SeqsUpTo([Kod : FeedCodes, Kolichestvo : {Gt10, <<"x">>}, Tsena : {PriceA}],
             MaxFeed)

InitRun(p) ==
    /\ call = [fn |-> "none"] /\ ret = NotCalled
    /\ prog = p
    /\ pc = IF p = "market.main" THEN "download" ELSE "enum"
    /\ campaign = IF p \in {"market.main", "market.get_offer_ids"} THEN "FBS" ELSE "OZON"
    /\ last_id = "" /\ product_list = <<>> /\ total = 0 /\ nreq = 0
    /\ offer_ids = <<>> /\ stocks = <<>> /\ prices = <<>>
    /\ todo = <<>> /\ net = <<>> /\ pending = <<>> /\ printed = <<>>
    /\ exc = NoExc /\ outcome = "running"

\* a run of seller.main or market.main, or seller.upload_stocks or
\* seller.upload_prices awaited with a feed already downloaded
Init ==
    \E p \in Mains \cup Uploaders :
        /\ InitRun(p)
        /\ apiOk = TRUE
        /\ feedSrc \in MainFeeds
        /\ watch_remnants = IF p \in Uploaders THEN feedSrc ELSE <<>>
        /\ catalog \in [Campaigns -> Catalogs(Ids)]
        /\ \A c \in Campaigns :
              (IF p = "market.main" THEN c = "OZON" ELSE c # "OZON") => catalog[c] = <<>>

Next ==
    \/ OzonPage
    \/ YandexPage
    \/ PageFail
    \/ DownloadStock
    \/ DownloadFail
    \/ CreateStocks
    \/ UpdateStocks
    \/ UpdateStocksFail
    \/ StocksLoopEnd
    \/ CreatePrices
    \/ UpdatePrice
    \/ UpdatePriceFail
    \/ PricesLoopEnd
    \/ UploadPricesCall

Spec == Init /\ [][Next]_vars

CatIds == {"a", "b", "c", "d"}

\* one call of get_offer_ids of either marketplace, against an API that
\* answers correctly or not
InitEnum ==
    \E p \in Enumerators :
        /\ InitRun(p)
        /\ apiOk \in BOOLEAN
        /\ feedSrc = <<>> /\ watch_remnants = <<>>
        /\ catalog \in [Campaigns -> Catalogs(CatIds)]
        /\ \A c \in Campaigns : c # campaign => catalog[c] = <<>>

NextEnum ==
    \/ OzonPage
    \/ YandexPage
    \/ PageFail

\* the interpreter runs the next statement, and every request returns or raises
SpecEnum == InitEnum /\ [][NextEnum]_vars /\ WF_vars(NextEnum)

----------------------------------------------------------------------------
(* Properties of the pure functions, stated on the harness (SpecFn) *)

Occ(seq, x) == Cardinality({i \in 1..Len(seq) : seq[i] = x})

Codes(ws) == {ws[i].Kod : i \in 1..Len(ws)}

StocksCall == call.fn \in {"seller.create_stocks", "market.create_stocks"}
PricesCall == call.fn \in {"seller.create_prices", "market.create_prices"}

\* a StockUpdate of either marketplace as (offer id, quantity)
StockView(s) ==
    IF call.fn = "market.create_stocks"
    THEN [offer_id |-> s.sku, stock |-> s.items[1].count]
    ELSE [offer_id |-> s.offer_id, stock |-> s.stock]

PriceId(p) == IF call.fn = "market.create_prices" THEN p.id ELSE p.offer_id

UpdatesFor(id) == {k \in 1..Len(ret.stocks) : StockView(ret.stocks[k]).offer_id = id}

\* the known offer ids of the call that are the code of no feed record
AbsentIds == {id \in Ids : In(id, call.offer_ids) /\ id \notin Codes(call.watch_remnants)}

\* C1 as stated: whenever create_stocks (either variant) returns, every known
\* offer id that is the code of no feed record has exactly one StockUpdate,
\* and that update has quantity 0.
C1_ExactlyOneZeroPerAbsentId ==
    (StocksCall /\ ret.done /\ ret.ok) =>
        \A id \in AbsentIds :
            /\ Cardinality(UpdatesFor(id)) = 1
            /\ \A k \in UpdatesFor(id) : StockView(ret.stocks[k]).stock = 0

\* C1 amended: whenever create_stocks (either variant) returns, every known
\* offer id that is the code of no feed record has as many StockUpdates as it
\* has entries in the known-offer list (one when the ids are distinct), each
\* with quantity 0.
C1_ZeroPerAbsentEntry ==
    (StocksCall /\ ret.done /\ ret.ok) =>
        \A id \in AbsentIds :
            /\ Cardinality(UpdatesFor(id)) = Occ(call.offer_ids, id)
            /\ \A k \in UpdatesFor(id) : StockView(ret.stocks[k]).stock = 0

C1_Witness ==
    /\ StocksCall /\ ret.done /\ ret.ok
    /\ call.watch_remnants # <<>>
    /\ \E id \in AbsentIds : Occ(call.offer_ids, id) = 1
    /\ \E id \in Ids : In(id, call.offer_ids) /\ id \in Codes(call.watch_remnants)

\* feed record i finds its code in the known-offer list when it is reached:
\* the list held that id more often than earlier feed records carried it
Matches(i) ==
    LET ws == call.watch_remnants
    IN  Occ(call.offer_ids, ws[i].Kod)
            > Cardinality({j \in 1..(i - 1) : ws[j].Kod = ws[i].Kod})

MatchedIdx == {i \in 1..Len(call.watch_remnants) : Matches(i)}

\* the k-th matching feed record
NthMatch(k) ==
    CHOOSE i \in MatchedIdx : Cardinality({j \in MatchedIdx : j < i}) = k - 1

\* the quantity the indicator rule prescribes
RuleQuantity(ind) ==
    CASE ind = Gt10 -> 100
      [] ind = One -> 0
      [] ind = <<"0">> -> 0
      [] ind = <<"2">> -> 2
      [] ind = <<"1", "0">> -> 10

\* C4: whenever create_stocks (either variant) returns, the feed records
\* whose code matches a known offer id have, in feed order, one StockUpdate
\* each, with quantity 100 for ">10", 0 for "1" and the integer value of any
\* other numeric indicator.
C4_QuantityRule ==
    (StocksCall /\ ret.done /\ ret.ok) =>
        /\ Len(ret.stocks) >= Cardinality(MatchedIdx)
        /\ \A k \in 1..Cardinality(MatchedIdx) :
              StockView(ret.stocks[k]) =
                  [offer_id |-> call.watch_remnants[NthMatch(k)].Kod,
                   stock |-> RuleQuantity(call.watch_remnants[NthMatch(k)].Kolichestvo)]

C4_Witness ==
    /\ StocksCall /\ ret.done /\ ret.ok
    /\ \E i, j \in MatchedIdx :
          /\ call.watch_remnants[i].Kolichestvo = One
          /\ call.watch_remnants[j].Kolichestvo = <<"1", "0">>
    /\ \E k \in 1..Len(ret.stocks) : StockView(ret.stocks[k]).stock = 10

RECURSIVE Concat(_)
Concat(cs) == IF cs = <<>> THEN <<>> ELSE Head(cs) \o Concat(Tail(cs))

\* C5: divide(lst, n) with n >= 1 yields ceil(len/n) chunks, all of length n
\* but the last, which has between 1 and n elements, and the chunks
\* concatenated in order are lst.
C5_DivideChunks ==
    (call.fn = "divide" /\ ret.done) =>
        LET cs == ret.chunks
            L == Len(call.lst)
            N == call.n
        IN  /\ Len(cs) = (L + N - 1) \div N
            /\ (L = 0 => cs = <<>>)
            /\ \A k \in 1..(Len(cs) - 1) : Len(cs[k]) = N
            /\ (cs # <<>> => Len(cs[Len(cs)]) \in 1..N)
            /\ Concat(cs) = call.lst

C5_Witness ==
    /\ call.fn = "divide" /\ ret.done
    /\ Len(ret.chunks) >= 2
    /\ Len(ret.chunks[Len(ret.chunks)]) < call.n

\* the codes of the feed records whose code is in ids, in feed order
RECURSIVE KnownCodes(_, _)
KnownCodes(ws, ids) ==
    IF ws = <<>> THEN <<>>
    ELSE (IF \E i \in 1..Len(ids) : ids[i] = Head(ws).Kod THEN <<Head(ws).Kod>> ELSE <<>>)
             \o KnownCodes(Tail(ws), ids)

\* C7: create_prices (either variant), when it returns, returns one
\* PriceUpdate per feed record whose code is in the known-offer list, in feed
\* order, and nothing else; the Ozon variant always returns.
C7_PricesOnlyForKnownFeedCodes ==
    (PricesCall /\ ret.done) =>
        /\ (call.fn = "seller.create_prices" => ret.ok)
        /\ (ret.ok =>
              [k \in 1..Len(ret.prices) |-> PriceId(ret.prices[k])]
                  = KnownCodes(call.watch_remnants, call.offer_ids))

C7_Witness ==
    /\ PricesCall /\ ret.done /\ ret.ok
    /\ Len(ret.prices) = 1
    /\ Len(call.watch_remnants) = 2
    /\ \E id \in Ids : In(id, call.offer_ids) /\ id \notin Codes(call.watch_remnants)
    /\ \E id \in Codes(call.watch_remnants) : ~In(id, call.offer_ids)

\* the digits of a text up to its first ".", scanned left to right
RECURSIVE LeadingDigits(_)
LeadingDigits(p) ==
    IF p = <<>> \/ Head(p) = "." THEN <<>>
    ELSE (IF Head(p) \in {"0", "1", "2", "3", "4", "5", "6", "7", "8", "9"}
          THEN <<Head(p)>> ELSE <<>>) \o LeadingDigits(Tail(p))

\* C10: price_conversion returns the digits that stand before the first "."
\* of the text, in order, and nothing else; "5'990.00 руб." gives "5990" and
\* "1200 руб." gives "1200".
C10_PriceConversion ==
    (call.fn = "price_conversion" /\ ret.done) =>
        /\ ret.conv = LeadingDigits(call.price)
        /\ (call.price = PriceA => ret.conv = <<"5", "9", "9", "0">>)
        /\ (call.price = PriceB => ret.conv = <<"1", "2", "0", "0">>)

C10_Witness ==
    /\ call.fn = "price_conversion" /\ ret.done
    /\ call.price = PriceA
    /\ ret.conv = <<"5", "9", "9", "0">>

----------------------------------------------------------------------------
(* Properties of the runs (Spec, SpecEnum) *)

\* the calls of one kind issued for a campaign, in issue order
Calls(op, c) == SelectSeq(net, LAMBDA e : e.op = op /\ e.campaign = c)

Args(cs) == [k \in 1..Len(cs) |-> cs[k].arg]

Flat(chunks) == Concat(chunks)

NoError == exc = NoExc

\* C2: a run of seller.main that meets no error has uploaded a price update
\* for exactly the feed codes that the run's offer enumeration returned.
C2_PricesUploadedForKnownFeedCodes ==
    (prog = "seller.main" /\ pc = "done" /\ NoError) =>
        LET sent == Flat(Args(Calls("update_price", "OZON")))
        IN  {sent[k].offer_id : k \in 1..Len(sent)}
                = Codes(watch_remnants)
                    \cap {product_list[i].offer_id : i \in 1..Len(product_list)}

\* the price chunks upload_prices has to send for a campaign
PriceChunksDue(c) ==
    divide(market_create_prices(watch_remnants, catalog[c]).prices, MarketPricesChunk)

\* C3: when a run of market.main that meets no error has finished, for the
\* FBS and for the DBS campaign upload_prices has run: the offer ids were
\* enumerated a second time and every chunk of price updates was sent.
C3_UploadPricesExecutes ==
    (prog = "market.main" /\ pc = "done" /\ NoError) =>
        \A c \in {"FBS", "DBS"} :
            /\ Cardinality({i \in 1..Len(net) :
                   net[i].op = "list" /\ net[i].campaign = c /\ net[i].arg = ""}) = 2
            /\ Args(Calls("update_price", c)) = PriceChunksDue(c)

\* the chunk size of the loop that sends op in the running entry point
ChunkOf(op) == IF op = "update_stocks" THEN StocksChunk ELSE PricesChunk

ListOf(op) == IF op = "update_stocks" THEN stocks ELSE prices

\* the upload loop of op is over without an exception
LoopOver(op) ==
    /\ NoError
    /\ IF op = "update_stocks"
       THEN pc \in {"create_prices", "update_price", "upload_prices", "done"}
       ELSE pc = "done"

\* C8: the upload calls of the current list are one per chunk, in chunk
\* order; a failed call is the last network call of the run, its exception
\* has left the loop (to main's handler, or out of upload_stocks /
\* upload_prices), the chunks before it are sent and none after it.
C8_OneCallPerChunkNoRetry ==
    /\ \A op \in {"update_stocks", "update_price"} :
          LET U == Calls(op, campaign)
              n == ChunkOf(op)
              lst == ListOf(op)
          IN  /\ Flat(Args(U)) = SubSeq(lst, 1, Min(Len(U) * n, Len(lst)))
              /\ \A k \in 1..Len(U) : Len(U[k].arg) >= 1
              /\ \A k \in 1..(Len(U) - 1) : Len(U[k].arg) = n /\ U[k].ok
              /\ (pc = op /\ NoError => Len(U) + Len(todo) = (Len(lst) + n - 1) \div n)
              /\ (LoopOver(op) => Len(Flat(Args(U))) = Len(lst))
    /\ \A i \in 1..Len(net) :
          ~net[i].ok =>
              /\ i = Len(net)
              /\ pc = "done"
              /\ exc = [kind |-> exc.kind, at |-> IF net[i].op = "list" THEN "enum"
                                                  ELSE net[i].op]
              /\ exc.kind \in NetErrors
              /\ (prog \in Uploaders => outcome = "raised")

C8_Witness ==
    /\ Len(Calls("update_stocks", campaign)) = 2
    /\ Calls("update_stocks", campaign)[1].ok
    /\ ~Calls("update_stocks", campaign)[2].ok
    /\ Len(stocks) > 2 * StocksChunk
    /\ pc = "done"
    /\ exc.at = "update_stocks"

\* C9: in seller.main and market.main every exception of a step after the
\* configuration is loaded is caught and printed and main returns normally;
\* the run ends there, with the failed call as its last network call.
C9_ErrorsCaughtAtTopLevel ==
    (prog \in Mains /\ ~NoError) =>
        /\ outcome = "returned"
        /\ printed = <<Message(exc.kind)>>
        /\ pc = "done"
        /\ \A i \in 1..Len(net) : ~net[i].ok => i = Len(net)

\* page requests a correct API needs to deliver a catalogue
PagesNeeded(len, limit) == IF len = 0 THEN 1 ELSE (len + limit - 1) \div limit

\* C6: against an API that terminates correctly each enumerator returns (or
\* stops on a failed request) after finitely many page requests: at most
\* ceil(size/limit) for Ozon, one more for Yandex Market's possible empty
\* last page, and a single request for an empty catalogue.
C6_EnumeratorsTerminate ==
    /\ [](apiOk =>
            nreq <= PagesNeeded(Len(catalog[campaign]),
                                IF OnYandex THEN YandexLimit ELSE OzonLimit)
                        + (IF OnYandex THEN 1 ELSE 0))
    /\ ((apiOk /\ pc = "enum") ~> (pc = "done"))

C6_Witness ==
    /\ apiOk /\ pc = "done" /\ outcome = "returned"
    /\ Len(catalog[campaign]) = 2 * OzonLimit
    /\ prog = "seller.get_offer_ids"
    /\ nreq = 2
    /\ Len(offer_ids) = Len(catalog[campaign])

----------------------------------------------------------------------------
(* Frame and counting properties of the reconciler (SpecFn) *)

\* entry i of the known-offer list is left over: the feed has fewer records
\* with that code than the list has entries of the id up to i
LeftOver(i) ==
    LET ids == call.offer_ids
        ws == call.watch_remnants
    IN  Cardinality({j \in 1..i : ids[j] = ids[i]})
            > Cardinality({j \in 1..Len(ws) : ws[j].Kod = ids[i]})

LeftOverIdx == {i \in 1..Len(call.offer_ids) : LeftOver(i)}

\* the left-over entries in their original order
LeftOverList ==
    [k \in 1..Cardinality(LeftOverIdx) |->
        call.offer_ids[CHOOSE i \in LeftOverIdx :
                           Cardinality({j \in LeftOverIdx : j < i}) = k - 1]]

\* C11: when create_stocks (either variant) returns, the caller's known-offer
\* list holds exactly the entries that matched no feed record, in their
\* original order, and the feed is as it was; create_prices (either variant)
\* leaves the known-offer list and the feed as they were.
C11_StocksConsumeOffersPricesDoNot ==
    /\ (StocksCall /\ ret.done /\ ret.ok) =>
          /\ ret.offer_ids = LeftOverList
          /\ ret.watch_remnants = call.watch_remnants
    /\ (PricesCall /\ ret.done) =>
          /\ ret.offer_ids = call.offer_ids
          /\ ret.watch_remnants = call.watch_remnants

C11_Witness ==
    /\ StocksCall /\ ret.done /\ ret.ok
    /\ call.offer_ids = <<"a", "a">>
    /\ ret.offer_ids = <<"a">>
    /\ Len(call.watch_remnants) = 2

\* the first feed record that carries the code
FirstRecord(id) ==
    LET ws == call.watch_remnants
    IN  ws[CHOOSE i \in 1..Len(ws) :
               ws[i].Kod = id /\ \A j \in 1..(i - 1) : ws[j].Kod # id]

\* C14: whenever create_stocks (either variant) returns, it returns as many
\* StockUpdates as the known-offer list had entries on entry and every id has
\* as many StockUpdates as entries in that list; with distinct known ids no
\* id has two StockUpdates and the quantity of an id found in the feed is the
\* one the indicator rule gives for the first feed record with that code.
C14_OneUpdatePerKnownEntry ==
    (StocksCall /\ ret.done /\ ret.ok) =>
        /\ Len(ret.stocks) = Len(call.offer_ids)
        /\ \A id \in Ids : Cardinality(UpdatesFor(id)) = Occ(call.offer_ids, id)
        /\ Injective(call.offer_ids) =>
              \A id \in Ids :
                  /\ Cardinality(UpdatesFor(id)) <= 1
                  /\ (In(id, call.offer_ids) /\ id \in Codes(call.watch_remnants)) =>
                        \A k \in UpdatesFor(id) :
                            StockView(ret.stocks[k]).stock
                                = RuleQuantity(FirstRecord(id).Kolichestvo)

C14_Witness ==
    LET ws == call.watch_remnants
    IN  /\ StocksCall /\ ret.done /\ ret.ok
        /\ Len(ws) = 2 /\ ws[1].Kod = ws[2].Kod
        /\ ws[1].Kolichestvo = <<"2">> /\ ws[2].Kolichestvo = Gt10
        /\ Len(call.offer_ids) = 2 /\ Injective(call.offer_ids)
        /\ In(ws[1].Kod, call.offer_ids)
        /\ Len(ret.stocks) = 2

----------------------------------------------------------------------------
(* Paging of the enumerators (SpecEnum) *)

\* the offer id of an entry of a received page
EntryId(e) == IF OnYandex THEN e.offer.shopSku ELSE e.offer_id

\* the offer ids of the entries of the pages received, page after page
RECURSIVE ReceivedIds(_)
ReceivedIds(es) ==
    IF es = <<>> THEN <<>>
    ELSE ReceivedIds(SubSeq(es, 1, Len(es) - 1))
             \o (IF es[Len(es)].ok
                 THEN [i \in 1..Len(es[Len(es)].items) |-> EntryId(es[Len(es)].items[i])]
                 ELSE <<>>)

\* C12: an enumerator requests its first page with the empty cursor and each
\* later page with the cursor the page before it returned (last_id /
\* nextPageToken); when it returns, it returns the offer ids of the entries
\* of all pages received, in page order and in entry order within a page.
C12_CursorChainAndAllEntries ==
    prog \in Enumerators =>
        /\ \A i \in 1..Len(net) :
              /\ net[i].op = "list"
              /\ i = 1 => net[i].arg = ""
              /\ i > 1 => net[i - 1].ok /\ net[i].arg = net[i - 1].next
        /\ outcome = "returned" =>
              /\ \A i \in 1..Len(net) : net[i].ok
              /\ offer_ids = ReceivedIds(net)

C12_Witness ==
    /\ prog \in Enumerators /\ outcome = "returned"
    /\ Len(net) = 3
    /\ net[2].arg # "" /\ net[3].arg # net[2].arg
    /\ Len(offer_ids) = 4

\* C15: seller.get_offer_ids leaves its paging loop only when the number of
\* items accumulated equals the total of the most recent page, so it returns
\* that many offer ids; while the two differ after a page, also when the
\* accumulated count is the larger, it stays in the loop, where its next step
\* is another page request.
C15_OzonLeavesLoopOnlyAtTotal ==
    /\ [](prog = "seller.get_offer_ids" =>
            /\ outcome = "returned" =>
                  total = Len(product_list) /\ Len(offer_ids) = total
            /\ (nreq > 0 /\ NoError /\ total # Len(product_list)) => pc = "enum"
            /\ (nreq > 0 /\ NoError /\ total = Len(product_list)) => pc = "done")
    /\ [][(prog = "seller.get_offer_ids" /\ pc = "enum") =>
              /\ nreq' = nreq + 1
              /\ net' = Append(net, net'[Len(net')])
              /\ net'[Len(net')].op = "list"
              /\ net'[Len(net')].arg = last_id]_vars

\* after a second page the accumulated count exceeds the reported total and
\* the loop goes on
C15_Witness ==
    /\ prog = "seller.get_offer_ids" /\ pc = "enum" /\ NoError
    /\ nreq = 2 /\ Len(product_list) > total

----------------------------------------------------------------------------
(* Unreadable quantity indicators in a run (Spec) *)

\* the indicator is neither ">10" nor "1" nor text that int() accepts
NotAQuantity(ind) == ind # Gt10 /\ ind # One /\ ~PyInt(ind).ok

\* feed record i meets its code in the known-offer list: the list has more
\* entries of the code than the feed has earlier records with it
MatchesKnown(ws, ids, i) ==
    Occ(ids, ws[i].Kod) > Cardinality({j \in 1..(i - 1) : ws[j].Kod = ws[i].Kod})

BadMatch(ws, ids) ==
    \E i \in 1..Len(ws) : MatchesKnown(ws, ids, i) /\ NotAQuantity(ws[i].Kolichestvo)

UploadCalls(c) ==
    {i \in 1..Len(net) : net[i].campaign = c
                         /\ net[i].op \in {"update_stocks", "update_price"}}

\* C13: create_stocks, called in a run with the downloaded feed and the
\* enumerated offer ids, raises ValueError and yields no list exactly when a
\* feed record that matches a known offer id carries an indicator that is
\* neither ">10" nor "1" nor an integer; unreadable indicators on records
\* that match no known id do not make it fail. After the failure main has
\* ended: no stock or price upload call is made for the campaign.
C13_UnreadableMatchedIndicatorFails ==
    /\ [][pc = "create_stocks" =>
              IF BadMatch(watch_remnants, offer_ids)
              THEN /\ exc' = [kind |-> "ValueError", at |-> "create_stocks"]
                   /\ pc' = "done"
                   /\ stocks' = stocks /\ todo' = todo /\ net' = net
              ELSE /\ exc' = exc
                   /\ pc' = "update_stocks"
                   /\ Len(stocks') = Len(offer_ids)]_vars
    /\ [](exc.at = "create_stocks" =>
              /\ pc = "done"
              /\ UploadCalls(campaign) = {}
              /\ prog \in Mains => outcome = "returned" /\ printed = <<"ERROR_2">>)

\* market.main: the first campaign does not know the code of the unreadable
\* record and gets its uploads, the second one knows it and fails
C13_Witness ==
    /\ prog = "market.main" /\ campaign = "DBS"
    /\ exc = [kind |-> "ValueError", at |-> "create_stocks"]
    /\ UploadCalls("FBS") # {}
    /\ \E i \in 1..Len(watch_remnants) :
          /\ NotAQuantity(watch_remnants[i].Kolichestvo)
          /\ ~In(watch_remnants[i].Kod, catalog["FBS"])
          /\ In(watch_remnants[i].Kod, catalog["DBS"])

====
